---- MODULE Spec2Model ----
(***************************************************************************)
(* Model of the panorama -> cubemap tile pyramid converter.                *)
(*                                                                         *)
(*   src/components/panorama-converter.tsx   PanoramaConverter (client)    *)
(*   src/app/page.tsx                        Home, ServerPanoramaConverter *)
(*                                           and POST (logging variant)    *)
(*   src/unnamed/part_000                    ServerPanoramaConverter and   *)
(*                                           POST (plain variant)          *)
(*                                                                         *)
(* JavaScript numbers are modelled as exact rationals [n, d] with d > 0,   *)
(* and NaN as [n |-> 0, d |-> 0].  Math.atan2 and Math.acos are modelled   *)
(* by rational interpolants that are exact at the octant boundaries        *)
(* (atan2) and at sin^2 = 0, 1/4, 1/2, 3/4, 1 (acos), monotone in between, *)
(* and have the ranges of the originals.                                   *)
(***************************************************************************)
EXTENDS Integers, Sequences, FiniteSets, TLC

(***************************************************************************)
(* Bounds of the model.                                                    *)
(***************************************************************************)
\* source images of the per-pixel specifications are at most MaxWidth x MaxHeight
MaxWidth == 2
MaxHeight == 2
\* sampler and mapper inputs are the multiples of 1/UVDen from -1/UVDen to 1 + 1/UVDen
UVDen == 4
\* faces and tiles of the per-pixel specifications have an edge of at most this
MaxFaceSize == 3
MaxTileSize == 3
\* sources of the rasterizer specification are at most MaxRasterWidth x MaxRasterHeight
MaxRasterWidth == 4
MaxRasterHeight == 2
\* encoder failures injected into one conversion
MaxEncoderFaults == 2
\* image files the user of the Home page chooses among
MaxFiles == 3

(***************************************************************************)
(* JavaScript numbers.                                                     *)
(***************************************************************************)
RECURSIVE GCD(_, _)
GCD(a, b) == IF b = 0 THEN a ELSE GCD(b, a % b)

Abs(i) == IF i < 0 THEN -i ELSE i

NaN == [n |-> 0, d |-> 0]

IsNaN(a) == a.d = 0

\* the rational n/d, d # 0, in lowest terms with a positive denominator
Rat(n, d) ==
  LET g == GCD(Abs(n), Abs(d))
      s == IF d < 0 THEN -1 ELSE 1
  IN [n |-> (s * n) \div g, d |-> (s * d) \div g]

Num(i) == [n |-> i, d |-> 1]

IsInteger(a) == a.d = 1

Neg(a) == IF IsNaN(a) THEN NaN ELSE [n |-> -a.n, d |-> a.d]

\* sums and products cancel common factors first: TLC's integers are 32 bits wide
Add(a, b) ==
  IF IsNaN(a) \/ IsNaN(b) THEN NaN
  ELSE LET g == GCD(a.d, b.d)
       IN Rat(a.n * (b.d \div g) + b.n * (a.d \div g), (a.d \div g) * b.d)

Sub(a, b) == Add(a, Neg(b))

Mul(a, b) ==
  IF IsNaN(a) \/ IsNaN(b) THEN NaN
  ELSE LET g1 == GCD(Abs(a.n), b.d)
           g2 == GCD(Abs(b.n), a.d)
       IN Rat((a.n \div g1) * (b.n \div g2), (a.d \div g2) * (b.d \div g1))

\* a / b; the only zero divisor the program meets divides zero (0 / 0 is NaN)
Div(a, b) ==
  IF IsNaN(a) \/ IsNaN(b) \/ b.n = 0 THEN NaN ELSE Mul(a, Rat(b.d, b.n))

Less(a, b) == ~IsNaN(a) /\ ~IsNaN(b) /\ Add(a, Neg(b)).n < 0

Leq(a, b) == ~IsNaN(a) /\ ~IsNaN(b) /\ Add(a, Neg(b)).n <= 0

\* Math.min, Math.max: NaN if either argument is NaN
MathMin(a, b) == IF IsNaN(a) \/ IsNaN(b) THEN NaN ELSE IF Less(b, a) THEN b ELSE a

MathMax(a, b) == IF IsNaN(a) \/ IsNaN(b) THEN NaN ELSE IF Less(a, b) THEN b ELSE a

MathFloor(a) == IF IsNaN(a) THEN NaN ELSE Num(a.n \div a.d)

MathCeil(a) == Neg(MathFloor(Neg(a)))

\* mutant: rounds down
MathRoundDown(a) == MathFloor(a)

\* Math.round rounds half up: floor(a + 1/2)
MathRound(a) == MathFloor(Add(a, Rat(1, 2)))

\* a store into a Uint8ClampedArray: NaN becomes 0, the rest is clamped to 0..255
\* (every value the program stores is already an integer or NaN)
ToUint8Clamped(a) ==
  IF IsNaN(a) THEN 0
  ELSE LET r == a.n \div a.d IN IF r < 0 THEN 0 ELSE IF r > 255 THEN 255 ELSE r

\* typedArray[idx] used in arithmetic: undefined (hence NaN) unless idx is an
\* integer index of the array
DataAt(data, idx) ==
  IF IsInteger(idx) /\ idx.n \in DOMAIN data THEN Num(data[idx.n]) ELSE NaN

(***************************************************************************)
(* Program constants.                                                      *)
(***************************************************************************)
\* tileConfigs, indexed by zoom level z = 0..3 (a JavaScript array)
tileConfigs ==
  [z \in 0..3 |->
     CASE z = 0 -> [tileSize |-> 256, size |-> 256]
       [] z = 1 -> [tileSize |-> 512, size |-> 512]
       [] z = 2 -> [tileSize |-> 512, size |-> 1024]
       [] z = 3 -> [tileSize |-> 512, size |-> 2048]]

\* tileConfigs.length
tileConfigsLength == Cardinality(DOMAIN tileConfigs)

\* mutant: the letters of the right and left faces are exchanged
faceNamesSwapped == [f \in 0..5 |-> <<"l", "r", "u", "d", "f", "b">>[f + 1]]

\* faceNames, indexed by face = 0..5: right, left, up, down, front, back
faceNames == [f \in 0..5 |-> <<"r", "l", "u", "d", "f", "b">>[f + 1]]

\* config.faceMapping of createZipFile: "right (+X)" is [name |-> "right", axis |-> "+X"]
faceMapping ==
  [letter \in {"r", "l", "u", "d", "f", "b"} |->
     CASE letter = "r" -> [name |-> "right", axis |-> "+X"]
       [] letter = "l" -> [name |-> "left", axis |-> "-X"]
       [] letter = "u" -> [name |-> "up", axis |-> "+Y"]
       [] letter = "d" -> [name |-> "down", axis |-> "-Y"]
       [] letter = "f" -> [name |-> "front", axis |-> "+Z"]
       [] letter = "b" -> [name |-> "back", axis |-> "-Z"]]

(***************************************************************************)
(* Direction mapper and equirectangular inverse projector:                 *)
(* faceUVToEquirectangular.                                                *)
(***************************************************************************)
\* uc = 2 * u - 1, vc = 2 * v - 1
SignedCoord(u) == Sub(Mul(Num(2), u), Num(1))

\* mutant: the left face is built with the right face's z
FaceDirectionMirrored(f, u, v) ==
  LET uc == SignedCoord(u)
      vc == SignedCoord(v)
  IN CASE f = 0 -> [x |-> Num(1), y |-> Neg(vc), z |-> Neg(uc)]
       [] f = 1 -> [x |-> Num(-1), y |-> Neg(vc), z |-> Neg(uc)]
       [] f = 2 -> [x |-> uc, y |-> Num(1), z |-> vc]
       [] f = 3 -> [x |-> uc, y |-> Num(-1), z |-> Neg(vc)]
       [] f = 4 -> [x |-> uc, y |-> Neg(vc), z |-> Num(1)]
       [] f = 5 -> [x |-> Neg(uc), y |-> Neg(vc), z |-> Num(-1)]
       [] OTHER -> [x |-> Num(0), y |-> Num(0), z |-> Num(0)]

\* the switch (face): the direction [x, y, z]; the default branch is x = y = z = 0
FaceDirection(f, u, v) ==
  LET uc == SignedCoord(u)
      vc == SignedCoord(v)
  IN CASE f = 0 -> [x |-> Num(1), y |-> Neg(vc), z |-> Neg(uc)]
       [] f = 1 -> [x |-> Num(-1), y |-> Neg(vc), z |-> uc]
       [] f = 2 -> [x |-> uc, y |-> Num(1), z |-> vc]
       [] f = 3 -> [x |-> uc, y |-> Num(-1), z |-> Neg(vc)]
       [] f = 4 -> [x |-> uc, y |-> Neg(vc), z |-> Num(1)]
       [] f = 5 -> [x |-> Neg(uc), y |-> Neg(vc), z |-> Num(-1)]
       [] OTHER -> [x |-> Num(0), y |-> Num(0), z |-> Num(0)]

\* whether the z component is the floating-point -0: z is a negation (-uc, -vc)
\* of a zero in faces 0 and 3; atan2(-0, x) with x < 0 is -PI, not PI
ZIsNegativeZero(f, u, v) ==
  \/ f = 0 /\ SignedCoord(u).n = 0
  \/ f = 3 /\ SignedCoord(v).n = 0

\* Math.atan2(z, x) / (2 * PI), in [-1/2, 1/2]: exact when z = 0, x = 0 or
\* |z| = |x|; inside an octant atan(t), 0 <= t <= 1, is replaced by (PI / 4) * t
Atan2Turns(z, x, zNegZero) ==
  LET az == [n |-> Abs(z.n), d |-> z.d]
      ax == [n |-> Abs(x.n), d |-> x.d]
      fromX == Leq(az, ax)
      t == IF fromX THEN Div(az, ax) ELSE Div(ax, az)
      oct == Mul(Rat(1, 8), t)
      acute == IF fromX THEN oct ELSE Sub(Rat(1, 4), oct)
      mag == IF x.n < 0 THEN Sub(Rat(1, 2), acute) ELSE acute
  IN IF IsNaN(z) \/ IsNaN(x) THEN NaN
     ELSE IF z.n = 0 /\ x.n = 0 THEN Num(0)
     ELSE IF z.n < 0 \/ (z.n = 0 /\ zNegZero) THEN Neg(mag) ELSE mag

\* Math.asin(sqrt(s)) / PI for 0 <= s <= 1, in [0, 1/2]: exact at
\* s = 0, 1/4, 1/2, 3/4, 1 and linear between these
AsinSqrtHalfTurns(s) ==
  LET seg(s0, g0, g1) == Add(g0, Mul(Mul(Sub(s, s0), Num(4)), Sub(g1, g0)))
  IN IF Leq(s, Rat(1, 4)) THEN seg(Num(0), Num(0), Rat(1, 6))
     ELSE IF Leq(s, Rat(1, 2)) THEN seg(Rat(1, 4), Rat(1, 6), Rat(1, 4))
     ELSE IF Leq(s, Rat(3, 4)) THEN seg(Rat(1, 2), Rat(1, 4), Rat(1, 3))
     ELSE seg(Rat(3, 4), Rat(1, 3), Rat(1, 2))

\* Math.acos(y / Math.sqrt(x * x + y * y + z * z)) / PI, in [0, 1];
\* NaN for the zero direction (0 / 0)
AcosHalfTurns(x, y, z) ==
  LET q == Add(Add(Mul(x, x), Mul(y, y)), Mul(z, z))
      s == Div(Mul(y, y), q)
      lat == AsinSqrtHalfTurns(s)
  IN IF IsNaN(s) THEN NaN
     ELSE IF y.n < 0 THEN Add(Rat(1, 2), lat) ELSE Sub(Rat(1, 2), lat)

\* faceUVToEquirectangular(face, u, v): [eqU, eqV]
faceUVToEquirectangular(f, u, v) ==
  LET d == FaceDirection(f, u, v)
      eqU == Add(Atan2Turns(d.z, d.x, ZIsNegativeZero(f, u, v)), Rat(1, 2))
      eqV == AcosHalfTurns(d.x, d.y, d.z)
  IN <<eqU, eqV>>

(***************************************************************************)
(* Bilinear sampler: sampleEquirectangularBilinear.                        *)
(***************************************************************************)
\* u = Math.max(0, Math.min(1, u))
Clamp01(u) == MathMax(Num(0), MathMin(Num(1), u))

\* mutant: scales by width instead of width - 1
PixelSpaceFullWidth(u, width) == Mul(Clamp01(u), Num(width))

\* x = u * (width - 1) after the clamp
PixelSpace(u, width) == Mul(Clamp01(u), Num(width - 1))

\* mutant: the neighbour wraps around to column 0
NeighbourWrapped(x1, width) ==
  IF IsNaN(x1) THEN NaN ELSE Num((x1.n + 1) % width)

\* x2 = Math.min(x1 + 1, width - 1)
Neighbour(x1, width) == MathMin(Add(x1, Num(1)), Num(width - 1))

\* getPixel(px, py): the three colour channels at idx = (py * width + px) * 4
getPixel(data, px, py, width) ==
  LET idx == Mul(Add(Mul(py, Num(width)), px), Num(4))
  IN <<DataAt(data, idx), DataAt(data, Add(idx, Num(1))), DataAt(data, Add(idx, Num(2)))>>

\* mutant: the second sample of each row is not weighted
interpolateUnweighted(c1, c2, c3, c4, fx, fy) ==
  LET i1 == Add(Mul(c1, Sub(Num(1), fx)), c2)
      i2 == Add(Mul(c3, Sub(Num(1), fx)), c4)
  IN Add(Mul(i1, Sub(Num(1), fy)), Mul(i2, fy))

\* interpolate(c1, c2, c3, c4) with the fractions fx, fy of the enclosing call
interpolate(c1, c2, c3, c4, fx, fy) ==
  LET i1 == Add(Mul(c1, Sub(Num(1), fx)), Mul(c2, fx))
      i2 == Add(Mul(c3, Sub(Num(1), fx)), Mul(c4, fx))
  IN Add(Mul(i1, Sub(Num(1), fy)), Mul(i2, fy))

\* the locals of sampleEquirectangularBilinear at its reads: the pixel-space
\* position, the four indices and the fractions
SampleTaps(u, v, width, height) ==
  LET x == PixelSpace(u, width)
      y == PixelSpace(v, height)
      x1 == MathFloor(x)
      y1 == MathFloor(y)
  IN [x |-> x, y |-> y, x1 |-> x1, y1 |-> y1,
      x2 |-> Neighbour(x1, width), y2 |-> Neighbour(y1, height),
      fx |-> Sub(x, x1), fy |-> Sub(y, y1)]

\* sampleEquirectangularBilinear(imgData, u, v, width, height): [r, g, b]
sampleEquirectangularBilinear(data, u, v, width, height) ==
  LET x == PixelSpace(u, width)
      y == PixelSpace(v, height)
      x1 == MathFloor(x)
      y1 == MathFloor(y)
      x2 == Neighbour(x1, width)
      y2 == Neighbour(y1, height)
      fx == Sub(x, x1)
      fy == Sub(y, y1)
      p11 == getPixel(data, x1, y1, width)
      p21 == getPixel(data, x2, y1, width)
      p12 == getPixel(data, x1, y2, width)
      p22 == getPixel(data, x2, y2, width)
  IN [c \in 1..3 |-> MathRound(interpolate(p11[c], p21[c], p12[c], p22[c], fx, fy))]

\* an empty typed array / object
NoBytes == [i \in {} |-> 0]

(***************************************************************************)
(* Face rasterizer: generateCubeFace.                                      *)
(***************************************************************************)
\* mutant: samples at the pixel centre, (x + 0.5) / size
FaceLocalCentre(px, size) == Div(Add(Num(px), Rat(1, 2)), Num(size))

\* the face-local coordinate handed to faceUVToEquirectangular: x / size
FaceLocal(px, size) == Div(Num(px), Num(size))

\* the four bytes written at idx = (y * size + x) * 4
FacePixel(img, f, size, px, py) ==
  LET uv == faceUVToEquirectangular(f, FaceLocal(px, size), FaceLocal(py, size))
      pixel == sampleEquirectangularBilinear(img.data, uv[1], uv[2], img.width, img.height)
  IN <<ToUint8Clamped(pixel[1]), ToUint8Clamped(pixel[2]), ToUint8Clamped(pixel[3]), 255>>

\* generateCubeFace(img, face, size): the data of the size x size ImageData
generateCubeFace(img, f, size) ==
  LET pixelAt ==  \* (@@ makes TLC build the table once instead of once per byte)
        [p \in 0..(size * size - 1) |-> FacePixel(img, f, size, p % size, p \div size)] @@ NoBytes
  IN [i \in 0..(size * size * 4 - 1) |-> pixelAt[i \div 4][(i % 4) + 1]]

\* the [u, v] arguments of the faceUVToEquirectangular call made for each pixel
FaceCallArgs(size) ==
  [p \in 0..(size * size - 1) |-> <<FaceLocal(p % size, size), FaceLocal(p \div size, size)>>]

(***************************************************************************)
(* Tile slicer: the tile loop of processImage and createTile.              *)
(***************************************************************************)
\* mutant: rounds down
TilesPerSideFloor(size, tileSz) == MathFloor(Div(Num(size), Num(tileSz))).n

\* Math.ceil(config.size / config.tileSize)
TilesPerSide(size, tileSz) == MathCeil(Div(Num(size), Num(tileSz))).n

\* sourceX = tileX * config.tileSize (sourceY likewise)
SourceOffset(t, tileSz) == t * tileSz

\* sourceWidth = Math.min(config.tileSize, faceSize - sourceX) (sourceHeight likewise)
SourceExtent(t, tileSz, size) ==
  MathMin(Num(tileSz), Num(size - SourceOffset(t, tileSz))).n

\* mutant: every converter starts from an opaque black tile
BlankByteOpaque(v, i) == IF i % 4 = 3 THEN 255 ELSE 0

\* the tile buffer before the copy: page.tsx fills it with opaque black; part_000's
\* createImageData and the client's new canvas are transparent black
BlankByte(v, i) == IF v = "server" /\ i % 4 = 3 THEN 255 ELSE 0

BlankTile(v, tileSz) == [i \in 0..(tileSz * tileSz * 4 - 1) |-> BlankByte(v, i)]

\* mutant: page.tsx's guard stops one pixel early
CopyGuardStrict(v, sourceIdx, len) == v = "server" => (sourceIdx >= 0 /\ sourceIdx < len - 4)

\* the guard of page.tsx's copy loop; the other two variants copy unguarded
CopyGuard(v, sourceIdx, len) == v = "server" => (sourceIdx >= 0 /\ sourceIdx < len - 3)

\* the face pixels (x, y) that tile (tileX, tileY) copies
CopiedRegion(v, tx, ty, tileSz, size) ==
  {<<SourceOffset(tx, tileSz) + cx, SourceOffset(ty, tileSz) + cy>> :
     <<cx, cy>> \in {c \in (0..(SourceExtent(tx, tileSz, size) - 1))
                             \X (0..(SourceExtent(ty, tileSz, size) - 1)) :
                       CopyGuard(v, ((SourceOffset(ty, tileSz) + c[2]) * size
                                       + SourceOffset(tx, tileSz) + c[1]) * 4,
                                 size * size * 4)}}

\* the tile's pixel buffer when createTile encodes it (server variants), or the
\* tile canvas after drawImage (client)
TileData(v, faceBytes, tx, ty, tileSz, size) ==
  [i \in 0..(tileSz * tileSz * 4 - 1) |->
     LET cx == (i \div 4) % tileSz
         cy == (i \div 4) \div tileSz
         sourceIdx == ((SourceOffset(ty, tileSz) + cy) * size + SourceOffset(tx, tileSz) + cx) * 4
     IN IF /\ cx < SourceExtent(tx, tileSz, size)
           /\ cy < SourceExtent(ty, tileSz, size)
           /\ CopyGuard(v, sourceIdx, size * size * 4)
        THEN IF sourceIdx + (i % 4) \in DOMAIN faceBytes THEN faceBytes[sourceIdx + (i % 4)] ELSE 0
        ELSE BlankByte(v, i)]

(***************************************************************************)
(* State.                                                                  *)
(***************************************************************************)
VARIABLES
  variant,         \* "client" (panorama-converter.tsx), "server" (page.tsx), "serverPlain" (part_000)
  pc,              \* position of the conversion
  srcWidth,        \* img.width of the decoded source, 0 before it is loaded
  srcHeight,       \* img.height
  zLevel,          \* z of processImage's level loop
  face,            \* face of the face loop; the face id of the per-pixel specifications
  tileY,           \* y of the tile loops
  tileX,           \* x of the tile loops
  faceReady,       \* whether generateCubeFace has returned for (z, face)
  tiles,           \* the tiles object: tile key -> the face region it encodes
  totalTiles,      \* processImage's locals
  zoomLevels,
  maxZoom,
  processedTiles,  \* client only
  progress,        \* the values handed to onProgress, in order (client only)
  lastEncode,      \* the encoder calls of the last createTile / toDataURL
  zipFiles,        \* file entries of the JSZip archive: name -> content
  result,          \* what the conversion resolved with
  errors,          \* number of rejections / exceptions delivered to the caller
  stats,           \* what the run has done so far: faces rasterized, tiles created, ...
  request,         \* the body of the request POST received ("none": no request, client)
  response,        \* the response POST returned, NoResponse before it returns
  imgData,         \* per-pixel: the source ImageData [width, height, data]
  uIn,             \* per-pixel: input coordinates of the mapper / sampler
  vIn,
  dir,             \* per-pixel: direction built by faceUVToEquirectangular
  eqUV,            \* per-pixel: its result
  sampled,         \* per-pixel: result of sampleEquirectangularBilinear
  taps,            \* per-pixel: its locals x, y, x1, y1, x2, y2, fx, fy
  step,            \* per-pixel: position
  faceSize,        \* per-pixel: config.size
  tileSize,        \* per-pixel: config.tileSize
  faceData,        \* per-pixel: data of the rasterized face
  faceArgs,        \* per-pixel: the face-local [u, v] passed for each face pixel
  tileAt,          \* per-pixel: the tile last sliced and createTile's locals for it
  tileData,        \* per-pixel: its pixel buffer
  covered,         \* per-pixel: face pixel -> number of tiles that copied it
  viewer,          \* MarzipanoViewer: the key its effect looked up and what came of it
  selectedFile,    \* Home: the selected file (0: null)
  isConverting,    \* Home
  uiProgress,      \* Home: its progress state
  cubemapData,     \* Home: NoData (null) or the result of a conversion
  showViewer,      \* Home
  converting       \* Home: the file of the convertToCubemap call that is pending (0: none)

loopVars == <<variant, face, tileY, tileX>>

driverVars ==
  <<pc, srcWidth, srcHeight, zLevel, faceReady, tiles, totalTiles, zoomLevels, maxZoom,
    processedTiles, progress, lastEncode, zipFiles, result, errors, stats, request, response>>

pointVars == <<uIn, vIn, dir, eqUV, sampled, taps>>

rasterVars == <<faceSize, tileSize, faceData, faceArgs, tileAt, tileData, covered>>

homeVars == <<selectedFile, isConverting, uiProgress, cubemapData, showViewer, converting>>

vars == <<loopVars, driverVars, imgData, step, pointVars, rasterVars, viewer, homeVars>>

Variants == {"client", "server", "serverPlain"}

NoImage == [width |-> 0, height |-> 0, data |-> NoBytes]

NoResult == [returned |-> FALSE, zip |-> NoBytes, tiles |-> NoBytes,
             totalTiles |-> 0, zoomLevels |-> 0, maxZoom |-> 0]

NoEncode == [key |-> "", firstOk |-> FALSE, attempts |-> 0, ok |-> FALSE, quality |-> 0]

NoTile == [x |-> 0, y |-> 0, sourceX |-> 0, sourceY |-> 0, sourceWidth |-> 0, sourceHeight |-> 0]

NoStats == [loadFailed |-> FALSE, processStarted |-> FALSE, faces |-> 0, created |-> 0,
            writes |-> 0, encodeFailures |-> 0, lost |-> 0, failure |-> "none"]

NoResponse == [status |-> 0, contentType |-> "", body |-> NoBytes, headers |-> NoBytes]

DriverIdle ==
  /\ pc = "idle" /\ srcWidth = 0 /\ srcHeight = 0 /\ zLevel = 0 /\ faceReady = FALSE
  /\ tiles = NoBytes /\ totalTiles = 0 /\ zoomLevels = 0 /\ maxZoom = 0
  /\ processedTiles = 0 /\ progress = <<>> /\ lastEncode = NoEncode
  /\ zipFiles = NoBytes /\ result = NoResult /\ errors = 0 /\ stats = NoStats
  /\ request = "none" /\ response = NoResponse

NoTaps == [x |-> NaN, y |-> NaN, x1 |-> NaN, y1 |-> NaN, x2 |-> NaN, y2 |-> NaN,
           fx |-> NaN, fy |-> NaN]

PointIdle ==
  /\ uIn = NaN /\ vIn = NaN /\ dir = [x |-> NaN, y |-> NaN, z |-> NaN]
  /\ eqUV = <<NaN, NaN>> /\ sampled = <<NaN, NaN, NaN>> /\ taps = NoTaps

NoViewer == [key |-> "", found |-> FALSE, drawn |-> FALSE]

NoData == [file |-> 0, totalTiles |-> 0, zoomLevels |-> 0, maxZoom |-> 0]

HomeIdle ==
  /\ selectedFile = 0 /\ isConverting = FALSE /\ uiProgress = Num(0)
  /\ cubemapData = NoData /\ showViewer = FALSE /\ converting = 0

RasterIdle ==
  /\ faceSize = 0 /\ tileSize = 0 /\ faceData = NoBytes /\ faceArgs = NoBytes
  /\ tileAt = NoTile /\ tileData = NoBytes /\ covered = NoBytes

(***************************************************************************)
(* Inputs of the per-pixel specifications.                                 *)
(***************************************************************************)
\* RGBA colours of the source pixels
Palette == {<<128, 64, 32, 255>>, <<10, 200, 251, 255>>}

FlatColours == Palette \cup {<<0, 0, 0, 255>>, <<255, 255, 255, 255>>}

\* the ImageData of a w x h source whose pixel p = y * w + x has colour colourAt[p]
ImageOf(w, h, colourAt) ==
  [width |-> w, height |-> h,
   data |-> [i \in 0..(w * h * 4 - 1) |-> colourAt[i \div 4][(i % 4) + 1]]]

Sizes == (1..MaxWidth) \X (1..MaxHeight)

\* every source image over the palette
Images ==
  UNION {{ImageOf(wh[1], wh[2], c) : c \in [0..(wh[1] * wh[2] - 1) -> Palette]} : wh \in Sizes}

RasterSizes == (1..MaxRasterWidth) \X (1..MaxRasterHeight)

\* single-colour sources
FlatImages ==
  UNION {{ImageOf(wh[1], wh[2], [p \in 0..(wh[1] * wh[2] - 1) |-> c]) : c \in FlatColours} :
         wh \in RasterSizes}

\* sources whose pixels all differ
RampImages ==
  {ImageOf(wh[1], wh[2],
           [p \in 0..(wh[1] * wh[2] - 1) |->
              <<(80 * (p % wh[1]) + 7) % 256, (90 * (p \div wh[1]) + 11) % 256, (35 * p + 3) % 256, 255>>]) :
     wh \in RasterSizes}

\* the multiples of 1 / UVDen from -1 / UVDen to 1 + 1 / UVDen
UVGrid == {Rat(k, UVDen) : k \in (-1)..(UVDen + 1)}

\* face ids handed to faceUVToEquirectangular: the six faces and two invalid ids
FaceIds == (-1)..6

(***************************************************************************)
(* SpecPoint: faceUVToEquirectangular and sampleEquirectangularBilinear    *)
(* applied to one input.                                                   *)
(***************************************************************************)
InitPoint ==
  /\ DriverIdle /\ RasterIdle /\ HomeIdle /\ viewer = NoViewer
  /\ variant = "client" /\ tileY = 0 /\ tileX = 0
  /\ dir = [x |-> NaN, y |-> NaN, z |-> NaN]
  /\ eqUV = <<NaN, NaN>> /\ sampled = <<NaN, NaN, NaN>> /\ taps = NoTaps
  /\ uIn \in UVGrid /\ vIn \in UVGrid
  /\ \/ step = "sampler" /\ imgData \in Images /\ face = 0
     \/ step = "mapper" /\ imgData = NoImage /\ face \in FaceIds

\* one call of sampleEquirectangularBilinear(imgData, u, v, width, height)
Sample ==
  /\ step = "sampler"
  /\ sampled' = sampleEquirectangularBilinear(imgData.data, uIn, vIn, imgData.width, imgData.height)
  /\ taps' = SampleTaps(uIn, vIn, imgData.width, imgData.height)
  /\ step' = "sampled"
  /\ UNCHANGED <<homeVars, viewer, loopVars, driverVars, imgData, rasterVars, uIn, vIn, dir, eqUV>>

\* one call of faceUVToEquirectangular(face, u, v)
Project ==
  /\ step = "mapper"
  /\ dir' = FaceDirection(face, uIn, vIn)
  /\ eqUV' = faceUVToEquirectangular(face, uIn, vIn)
  /\ step' = "mapped"
  /\ UNCHANGED <<homeVars, viewer, loopVars, driverVars, imgData, rasterVars, uIn, vIn, sampled, taps>>

NextPoint == Sample \/ Project

SpecPoint == InitPoint /\ [][NextPoint]_vars

(***************************************************************************)
(* SpecRaster: generateCubeFace followed by the tile loop of processImage  *)
(* for one face, on small faces and tiles.                                 *)
(***************************************************************************)
InitRaster ==
  /\ DriverIdle /\ PointIdle /\ HomeIdle /\ viewer = NoViewer
  /\ variant = "client"
  /\ imgData \in FlatImages \cup RampImages
  /\ face \in 0..5
  /\ faceSize \in 1..MaxFaceSize
  /\ tileSize = 0
  /\ step = "face"
  /\ tileY = 0 /\ tileX = 0
  /\ faceData = NoBytes /\ faceArgs = NoBytes
  /\ tileAt = NoTile /\ tileData = NoBytes /\ covered = NoBytes

\* const faceCanvas = this.generateCubeFace(img, face, faceSize)
RasterFace ==
  /\ step = "face"
  /\ faceData' = generateCubeFace(imgData, face, faceSize)
  /\ faceArgs' = FaceCallArgs(faceSize)
  /\ step' = "config"
  /\ UNCHANGED <<homeVars, viewer, loopVars, driverVars, imgData, pointVars, faceSize, tileSize, tileAt, tileData, covered>>

\* the remaining inputs of the tile loop: which converter runs it, and config.tileSize
ChooseSlicer ==
  /\ step = "config"
  /\ variant' \in Variants
  /\ tileSize' \in 1..MaxTileSize
  /\ covered' = [p \in (0..(faceSize - 1)) \X (0..(faceSize - 1)) |-> 0]
  /\ step' = "slice"
  /\ UNCHANGED <<homeVars, viewer, face, tileY, tileX, driverVars, imgData, pointVars, faceSize, faceData, faceArgs,
                 tileAt, tileData>>

\* one iteration of  for (y ...) for (x ...)  { createTile / drawImage }
SliceTile ==
  /\ step = "slice"
  /\ tileData' = TileData(variant, faceData, tileX, tileY, tileSize, faceSize)
  /\ tileAt' = [x |-> tileX, y |-> tileY,
                sourceX |-> SourceOffset(tileX, tileSize),
                sourceY |-> SourceOffset(tileY, tileSize),
                sourceWidth |-> SourceExtent(tileX, tileSize, faceSize),
                sourceHeight |-> SourceExtent(tileY, tileSize, faceSize)]
  /\ LET region == CopiedRegion(variant, tileX, tileY, tileSize, faceSize)
     IN covered' = [p \in DOMAIN covered |-> IF p \in region THEN covered[p] + 1 ELSE covered[p]]
  /\ IF tileX + 1 < TilesPerSide(faceSize, tileSize)
     THEN tileX' = tileX + 1 /\ tileY' = tileY /\ step' = step
     ELSE /\ tileX' = 0
          /\ tileY' = tileY + 1
          /\ step' = IF tileY + 1 < TilesPerSide(faceSize, tileSize) THEN step ELSE "sliced"
  /\ UNCHANGED <<homeVars, viewer, variant, face, driverVars, imgData, pointVars, faceSize, tileSize, faceData, faceArgs>>

NextRaster == RasterFace \/ ChooseSlicer \/ SliceTile

SpecRaster == InitRaster /\ [][NextRaster]_vars

(***************************************************************************)
(* Pyramid driver: convertFromUrl / convertToCubemap, processImage,        *)
(* createZipFile.  Faces and tiles are carried by the region they hold;    *)
(* their pixels are those of the per-pixel specifications.                 *)
(***************************************************************************)
\* mutant: adds 6 * tilesPerSide per level
RECURSIVE TotalTilesLinear(_, _)
TotalTilesLinear(from, maxZ) ==
  IF from > maxZ THEN 0
  ELSE 6 * TilesPerSide(tileConfigs[from].size, tileConfigs[from].tileSize)
         + TotalTilesLinear(from + 1, maxZ)

\* totalTiles after  for (z = from; z <= maxZ; z++) totalTiles += 6 * tilesPerSide * tilesPerSide
RECURSIVE TotalTiles(_, _)
TotalTiles(from, maxZ) ==
  IF from > maxZ THEN 0
  ELSE LET tilesPerSide == TilesPerSide(tileConfigs[from].size, tileConfigs[from].tileSize)
       IN 6 * tilesPerSide * tilesPerSide + TotalTiles(from + 1, maxZ)

\* mutant: the key carries the face index instead of its letter
TileKeyFaceIndex(zl, f, ty, tx) ==
  ToString(zl) \o "/" \o ToString(f) \o "/" \o ToString(ty) \o "/" \o ToString(tx)

\* mutant: the key does not carry the row
TileKeyNoRow(zl, f, ty, tx) ==
  ToString(zl) \o "/" \o faceNames[f] \o "/" \o ToString(tx)

\* tileKey = `${z}/${faceName}/${y}/${x}`
TileKey(zl, f, ty, tx) ==
  ToString(zl) \o "/" \o faceNames[f] \o "/" \o ToString(ty) \o "/" \o ToString(tx)

\* the archive name of a tile: `${tilePath}.jpg`
ZipPath(tilePath) == tilePath \o ".jpg"

\* the file entries createZipFile adds: one per tile, then config.json
ZipEntries(tileMap) ==
  [name \in {ZipPath(k) : k \in DOMAIN tileMap} \cup {"config.json"} |->
     IF name = "config.json" THEN <<"config", faceMapping>>
     ELSE LET k == CHOOSE key \in DOMAIN tileMap : ZipPath(key) = name IN <<"tile", tileMap[k]>>]

\* ways the source can fail to load, per converter
LoadFailures(v) ==
  CASE v = "client" -> {"onerror"}
    [] v = "server" -> {"fetch", "noOffscreenCanvas", "noContext", "createImageBitmap"}
    [] v = "serverPlain" -> {"fetch", "createImageBitmap"}

\* request bodies POST receives: not JSON, the JSON value null, no (or an empty)
\* imageUrl, an imageUrl that new URL() rejects, and a well-formed one
Requests == {"badJson", "nullBody", "noUrl", "badUrl", "ok"}

\* the client converter is called by Home.handleConvert, the server converters by POST
Init ==
  /\ variant \in Variants
  /\ IF variant = "client"
     THEN pc = "load" /\ request = "none"
     ELSE pc = "request" /\ request \in Requests
  /\ response = NoResponse
  /\ srcWidth = 0 /\ srcHeight = 0 /\ zLevel = 0 /\ face = 0 /\ tileY = 0 /\ tileX = 0
  /\ faceReady = FALSE
  /\ tiles = NoBytes /\ totalTiles = 0 /\ zoomLevels = 0 /\ maxZoom = 0
  /\ processedTiles = 0 /\ progress = <<>> /\ lastEncode = NoEncode
  /\ zipFiles = NoBytes /\ result = NoResult /\ errors = 0 /\ stats = NoStats
  /\ imgData = NoImage /\ step = "idle" /\ PointIdle /\ RasterIdle
  /\ HomeIdle /\ viewer = NoViewer

\* a throw that leaves the conversion: every catch rethrows, the client's onload
\* handler rejects the promise
Throw(what) ==
  /\ pc' = "failed"
  /\ errors' = errors + 1
  /\ stats' = [stats EXCEPT !.failure = what]

\* the source loads: img.onload fires / createImageBitmap resolves, and
\* processImage(img) is called
LoadOk ==
  /\ pc = "load"
  /\ \E wh \in Sizes : srcWidth' = wh[1] /\ srcHeight' = wh[2]
  /\ pc' = "process"
  /\ UNCHANGED <<homeVars, viewer, request, response, loopVars, zLevel, faceReady, tiles, totalTiles, zoomLevels, maxZoom, processedTiles,
                 progress, lastEncode, zipFiles, result, errors, stats, imgData, step, pointVars,
                 rasterVars>>

\* mutant: the load failure is swallowed and processImage is called all the same
LoadFailSwallowed ==
  /\ pc = "load"
  /\ \E why \in LoadFailures(variant) :
       /\ pc' = "process"
       /\ stats' = [stats EXCEPT !.loadFailed = TRUE, !.failure = why]
  /\ UNCHANGED <<homeVars, viewer, request, response, loopVars, srcWidth, srcHeight, zLevel, faceReady, tiles, totalTiles, zoomLevels,
                 maxZoom, processedTiles, progress, lastEncode, zipFiles, result, errors, imgData,
                 step, pointVars, rasterVars>>

\* the source does not load: response.ok is false or fetch rejects, createImageBitmap
\* rejects, there is no OffscreenCanvas (page.tsx), or img.onerror fires (client)
LoadFail ==
  /\ pc = "load"
  /\ \E why \in LoadFailures(variant) :
       /\ pc' = "failed"
       /\ errors' = errors + 1
       /\ stats' = [stats EXCEPT !.loadFailed = TRUE, !.failure = why]
  /\ UNCHANGED <<homeVars, viewer, request, response, loopVars, srcWidth, srcHeight, zLevel, faceReady, tiles, totalTiles, zoomLevels,
                 maxZoom, processedTiles, progress, lastEncode, zipFiles, result, imgData, step,
                 pointVars, rasterVars>>

\* processImage up to its traversal: the counts
StartProcess ==
  /\ pc = "process"
  /\ maxZoom' = tileConfigsLength - 1
  /\ zoomLevels' = maxZoom' + 1
  /\ totalTiles' = TotalTiles(0, maxZoom')
  /\ tiles' = NoBytes
  /\ processedTiles' = 0
  /\ zLevel' = 0 /\ face' = 0 /\ faceReady' = FALSE
  /\ stats' = [stats EXCEPT !.processStarted = TRUE]
  /\ pc' = "face"
  /\ UNCHANGED <<homeVars, viewer, request, response, variant, tileY, tileX, srcWidth, srcHeight, progress, lastEncode, zipFiles, result,
                 errors, imgData, step, pointVars, rasterVars>>

\* generateCubeFace(img, face, faceSize) returns the face
GenerateFaceOk ==
  /\ pc = "face"
  /\ faceReady' = TRUE
  /\ tileY' = 0 /\ tileX' = 0
  /\ stats' = [stats EXCEPT !.faces = @ + 1]
  /\ pc' = "tile"
  /\ UNCHANGED <<homeVars, viewer, request, response, variant, face, srcWidth, srcHeight, zLevel, tiles, totalTiles, zoomLevels, maxZoom,
                 processedTiles, progress, lastEncode, zipFiles, result, errors, imgData, step,
                 pointVars, rasterVars>>

\* generateCubeFace throws (no canvas or 2d context for the face)
GenerateFaceFail ==
  /\ pc = "face"
  /\ Throw("generateCubeFace")
  /\ UNCHANGED <<homeVars, viewer, request, response, loopVars, srcWidth, srcHeight, zLevel, faceReady, tiles, totalTiles, zoomLevels,
                 maxZoom, processedTiles, progress, lastEncode, zipFiles, result, imgData, step,
                 pointVars, rasterVars>>

\* the encoder calls one tile makes.  first, second: whether the encoder succeeds at
\* quality 1.0, and at the retry.  page.tsx retries once at 0.9; part_000 calls
\* convertToBlob once; the client's toDataURL answers "data:," when it cannot encode
Encode(v, key, first, second) ==
  IF first THEN [key |-> key, firstOk |-> TRUE, attempts |-> 1, ok |-> TRUE, quality |-> 10]
  ELSE IF v = "server" THEN [key |-> key, firstOk |-> FALSE, attempts |-> 2, ok |-> second, quality |-> 9]
  ELSE [key |-> key, firstOk |-> FALSE, attempts |-> 1, ok |-> FALSE, quality |-> 10]

\* whether the tile is stored after these encoder calls: the server variants throw
\* when the last call failed, the client stores what toDataURL returned
StoresTile(v, enc) == enc.ok \/ v = "client"

\* mutant: the row loop is the inner loop
NextPositionColumnMajor ==
  LET tilesPerSide == TilesPerSide(tileConfigs[zLevel].size, tileConfigs[zLevel].tileSize)
  IN IF tileY + 1 < tilesPerSide THEN [z |-> zLevel, face |-> face, y |-> tileY + 1, x |-> tileX, pc |-> "tile"]
     ELSE IF tileX + 1 < tilesPerSide THEN [z |-> zLevel, face |-> face, y |-> 0, x |-> tileX + 1, pc |-> "tile"]
     ELSE IF face + 1 < 6 THEN [z |-> zLevel, face |-> face + 1, y |-> tileY + 1, x |-> 0, pc |-> "face"]
     ELSE IF zLevel + 1 <= maxZoom THEN [z |-> zLevel + 1, face |-> 0, y |-> tileY + 1, x |-> 0, pc |-> "face"]
     ELSE [z |-> zLevel + 1, face |-> 6, y |-> tileY + 1, x |-> 0, pc |-> "zip"]

\* the loop counters after one tile: x++, then y++, then face++, then z++
NextPosition ==
  LET tilesPerSide == TilesPerSide(tileConfigs[zLevel].size, tileConfigs[zLevel].tileSize)
  IN IF tileX + 1 < tilesPerSide THEN [z |-> zLevel, face |-> face, y |-> tileY, x |-> tileX + 1, pc |-> "tile"]
     ELSE IF tileY + 1 < tilesPerSide THEN [z |-> zLevel, face |-> face, y |-> tileY + 1, x |-> 0, pc |-> "tile"]
     ELSE IF face + 1 < 6 THEN [z |-> zLevel, face |-> face + 1, y |-> tileY + 1, x |-> 0, pc |-> "face"]
     ELSE IF zLevel + 1 <= maxZoom THEN [z |-> zLevel + 1, face |-> 0, y |-> tileY + 1, x |-> 0, pc |-> "face"]
     ELSE [z |-> zLevel + 1, face |-> 6, y |-> tileY + 1, x |-> 0, pc |-> "zip"]

\* mutant: the fraction is reported, not the percentage
ProgressFraction(processed, total) == Div(Num(processed), Num(total))

\* the argument of onProgress: (processedTiles / totalTiles) * 100
ProgressValue(processed, total) == Mul(Div(Num(processed), Num(total)), Num(100))

\* one iteration of the tile loops: slice and encode tile (x, y) of the face, store it
\* under its key, report progress (client)
CreateTile ==
  /\ pc = "tile"
  /\ \E first, second \in BOOLEAN :
       /\ ~first => stats.encodeFailures < MaxEncoderFaults
       /\ first => second
       /\ LET key == TileKey(zLevel, face, tileY, tileX)
              enc == Encode(variant, key, first, second)
              np == NextPosition
          IN /\ lastEncode' = enc
             /\ IF StoresTile(variant, enc)
                THEN /\ tiles' = [k \in DOMAIN tiles \cup {key} |->
                                    IF k = key THEN <<zLevel, face, tileY, tileX>> ELSE tiles[k]]
                     /\ processedTiles' = IF variant = "client" THEN processedTiles + 1 ELSE processedTiles
                     /\ progress' = IF variant = "client"
                                    THEN Append(progress, ProgressValue(processedTiles', totalTiles))
                                    ELSE progress
                     /\ stats' = [stats EXCEPT !.created = @ + 1,
                                               !.writes = @ + 1,
                                               !.encodeFailures = IF first THEN @ ELSE @ + 1,
                                               !.lost = IF enc.ok THEN @ ELSE @ + 1]
                     /\ zLevel' = np.z /\ face' = np.face /\ tileY' = np.y /\ tileX' = np.x
                     /\ pc' = np.pc
                     /\ faceReady' = (np.pc = "tile")
                     /\ errors' = errors
                ELSE /\ pc' = "failed"
                     /\ errors' = errors + 1
                     /\ stats' = [stats EXCEPT !.failure = "encode", !.encodeFailures = @ + 1]
                     /\ UNCHANGED <<homeVars, viewer, request, response, tiles, processedTiles, progress, zLevel, face, tileY, tileX, faceReady>>
  /\ UNCHANGED <<homeVars, viewer, request, response, variant, srcWidth, srcHeight, totalTiles, zoomLevels, maxZoom, zipFiles, result,
                 imgData, step, pointVars, rasterVars>>

\* slicing throws before the encoder is called (no canvas or 2d context for the tile)
CreateTileFail ==
  /\ pc = "tile"
  /\ Throw("createTile")
  /\ UNCHANGED <<homeVars, viewer, request, response, loopVars, srcWidth, srcHeight, zLevel, faceReady, tiles, totalTiles, zoomLevels,
                 maxZoom, processedTiles, progress, lastEncode, zipFiles, result, imgData, step,
                 pointVars, rasterVars>>

\* createZipFile(tiles) resolves with the archive
CreateZipOk ==
  /\ pc = "zip"
  /\ zipFiles' = ZipEntries(tiles)
  /\ pc' = "return"
  /\ UNCHANGED <<homeVars, viewer, request, response, loopVars, srcWidth, srcHeight, zLevel, faceReady, tiles, totalTiles, zoomLevels,
                 maxZoom, processedTiles, progress, lastEncode, result, errors, stats, imgData, step,
                 pointVars, rasterVars>>

\* createZipFile rejects (generateAsync fails)
CreateZipFail ==
  /\ pc = "zip"
  /\ Throw("createZipFile")
  /\ UNCHANGED <<homeVars, viewer, request, response, loopVars, srcWidth, srcHeight, zLevel, faceReady, tiles, totalTiles, zoomLevels,
                 maxZoom, processedTiles, progress, lastEncode, zipFiles, result, imgData, step,
                 pointVars, rasterVars>>

\* processImage returns and the conversion resolves with the result
Return ==
  /\ pc = "return"
  /\ result' = [returned |-> TRUE,
                zip |-> zipFiles,
                tiles |-> IF variant = "client" THEN tiles ELSE NoBytes,
                totalTiles |-> totalTiles, zoomLevels |-> zoomLevels, maxZoom |-> maxZoom]
  /\ pc' = "done"
  /\ UNCHANGED <<homeVars, viewer, request, response, loopVars, srcWidth, srcHeight, zLevel, faceReady, tiles, totalTiles, zoomLevels,
                 maxZoom, processedTiles, progress, lastEncode, zipFiles, errors, stats, imgData, step,
                 pointVars, rasterVars>>

\* NextResponse.json(body, { status })
JsonResponse(status, error) ==
  [status |-> status, contentType |-> "application/json", body |-> <<"error", error>>,
   headers |-> NoBytes]

\* mutant: X-Zoom-Levels and X-Max-Zoom are exchanged
ZipResponseSwapped(res) ==
  [status |-> 200, contentType |-> "application/zip", body |-> res.zip,
   headers |-> [XTotalTiles |-> ToString(res.totalTiles),
                XZoomLevels |-> ToString(res.maxZoom),
                XMaxZoom |-> ToString(res.zoomLevels)]]

\* new NextResponse(result.zipBuffer, { status: 200, headers })
ZipResponse(res) ==
  [status |-> 200, contentType |-> "application/zip", body |-> res.zip,
   headers |-> [XTotalTiles |-> ToString(res.totalTiles),
                XZoomLevels |-> ToString(res.zoomLevels),
                XMaxZoom |-> ToString(res.maxZoom)]]

\* what POST answers to a request it does not convert.  page.tsx catches the failure
\* of request.json() and answers 400; in part_000 it is thrown into the outer catch,
\* and so is, in both, the TypeError of destructuring { imageUrl } from null
RejectResponse(v, req) ==
  CASE req = "badJson" ->
         IF v = "server" THEN JsonResponse(400, "Invalid JSON in request body")
         ELSE JsonResponse(500, "Failed to convert panorama image")
    [] req = "nullBody" -> JsonResponse(500, "Failed to convert panorama image")
    [] req = "noUrl" -> JsonResponse(400, "Image URL is required")
    [] req = "badUrl" -> JsonResponse(400, "Invalid URL format")

\* POST returns before the conversion: the body is not JSON, imageUrl is missing or
\* is not a URL
PostReject ==
  /\ pc = "request"
  /\ request # "ok"
  /\ response' = RejectResponse(variant, request)
  /\ pc' = "rejected"
  /\ UNCHANGED <<homeVars, viewer, loopVars, srcWidth, srcHeight, zLevel, faceReady, tiles, totalTiles, zoomLevels,
                 maxZoom, processedTiles, progress, lastEncode, zipFiles, result, errors, stats,
                 request, imgData, step, pointVars, rasterVars>>

\* POST calls converter.convertFromUrl(imageUrl)
PostAccept ==
  /\ pc = "request"
  /\ request = "ok"
  /\ pc' = "load"
  /\ UNCHANGED <<homeVars, viewer, loopVars, srcWidth, srcHeight, zLevel, faceReady, tiles, totalTiles, zoomLevels,
                 maxZoom, processedTiles, progress, lastEncode, zipFiles, result, errors, stats,
                 request, response, imgData, step, pointVars, rasterVars>>

\* convertFromUrl resolved: POST returns the archive
PostRespondOk ==
  /\ pc = "done"
  /\ variant # "client"
  /\ response = NoResponse
  /\ response' = ZipResponse(result)
  /\ UNCHANGED <<homeVars, viewer, loopVars, pc, srcWidth, srcHeight, zLevel, faceReady, tiles, totalTiles, zoomLevels,
                 maxZoom, processedTiles, progress, lastEncode, zipFiles, result, errors, stats,
                 request, imgData, step, pointVars, rasterVars>>

\* convertFromUrl rejected: POST's catch answers 500
PostRespondError ==
  /\ pc = "failed"
  /\ variant # "client"
  /\ response = NoResponse
  /\ response' = JsonResponse(500, "Failed to convert panorama image")
  /\ UNCHANGED <<homeVars, viewer, loopVars, pc, srcWidth, srcHeight, zLevel, faceReady, tiles, totalTiles, zoomLevels,
                 maxZoom, processedTiles, progress, lastEncode, zipFiles, result, errors, stats,
                 request, imgData, step, pointVars, rasterVars>>

\* frontTileKey = `${Math.floor(cubemapData.maxZoom / 2)}/4/0/0`
FrontTileKey(cubemap) ==
  ToString(MathFloor(Div(Num(cubemap.maxZoom), Num(2))).n) \o "/4/0/0"

\* the effect of MarzipanoViewer on the result of the client conversion: it looks
\* frontTileKey up in cubemapData.tiles, and loads and draws the tile with its overlay
\* if (tileData)
ViewerEffect ==
  /\ pc = "done"
  /\ variant = "client"
  /\ viewer = NoViewer
  /\ LET frontTileKey == FrontTileKey(result)
         found == frontTileKey \in DOMAIN result.tiles
     IN viewer' = [key |-> frontTileKey, found |-> found, drawn |-> found]
  /\ UNCHANGED <<homeVars, loopVars, driverVars, imgData, step, pointVars, rasterVars>>

Next ==
  \/ LoadOk
  \/ LoadFail
  \/ StartProcess
  \/ GenerateFaceOk
  \/ GenerateFaceFail
  \/ CreateTile
  \/ CreateTileFail
  \/ CreateZipOk
  \/ CreateZipFail
  \/ Return
  \/ PostReject
  \/ PostAccept
  \/ PostRespondOk
  \/ PostRespondError
  \/ ViewerEffect

Spec == Init /\ [][Next]_vars

(***************************************************************************)
(* SpecHome: the Home page.  Its event handlers interleave with the        *)
(* pending convertToCubemap call, whose tiles are not modelled here.       *)
(***************************************************************************)
\* the processedTiles at which the pending conversion's onProgress calls are observed
ProgressTicks == {1, 66, 132}

InitHome ==
  /\ DriverIdle /\ PointIdle /\ RasterIdle /\ HomeIdle /\ viewer = NoViewer
  /\ variant = "client" /\ face = 0 /\ tileY = 0 /\ tileX = 0
  /\ imgData = NoImage /\ step = "idle"

\* handleFileSelect with an image file (any other file, or none, changes nothing)
HandleFileSelect ==
  /\ \E file \in 1..MaxFiles : selectedFile' = file
  /\ cubemapData' = NoData
  /\ showViewer' = FALSE
  /\ UNCHANGED <<loopVars, driverVars, imgData, step, pointVars, rasterVars, viewer,
                 isConverting, uiProgress, converting>>

\* handleConvert up to its await; the button is rendered for a selected file and is
\* disabled while isConverting
HandleConvert ==
  /\ selectedFile # 0
  /\ ~isConverting
  /\ isConverting' = TRUE
  /\ uiProgress' = Num(0)
  /\ converting' = selectedFile
  /\ UNCHANGED <<loopVars, driverVars, imgData, step, pointVars, rasterVars, viewer,
                 selectedFile, cubemapData, showViewer>>

\* the callback handed to convertToCubemap: setProgress(progress)
OnProgress ==
  /\ converting # 0
  /\ \E k \in ProgressTicks :
       /\ Less(uiProgress, ProgressValue(k, TotalTiles(0, tileConfigsLength - 1)))
       /\ uiProgress' = ProgressValue(k, TotalTiles(0, tileConfigsLength - 1))
  /\ UNCHANGED <<loopVars, driverVars, imgData, step, pointVars, rasterVars, viewer,
                 selectedFile, isConverting, cubemapData, showViewer, converting>>

\* convertToCubemap resolves after its last onProgress call: setCubemapData(result),
\* setProgress(100), and finally setIsConverting(false)
ConvertResolved ==
  /\ converting # 0
  /\ uiProgress = Num(100)
  /\ cubemapData' = [file |-> converting,
                     totalTiles |-> TotalTiles(0, tileConfigsLength - 1),
                     zoomLevels |-> tileConfigsLength,
                     maxZoom |-> tileConfigsLength - 1]
  /\ uiProgress' = Num(100)
  /\ isConverting' = FALSE
  /\ converting' = 0
  /\ UNCHANGED <<loopVars, driverVars, imgData, step, pointVars, rasterVars, viewer,
                 selectedFile, showViewer>>

\* convertToCubemap rejects: the catch logs, and finally setIsConverting(false)
ConvertRejected ==
  /\ converting # 0
  /\ isConverting' = FALSE
  /\ converting' = 0
  /\ UNCHANGED <<loopVars, driverVars, imgData, step, pointVars, rasterVars, viewer,
                 selectedFile, uiProgress, cubemapData, showViewer>>

\* the Preview button of the result card: setShowViewer(!showViewer)
TogglePreview ==
  /\ cubemapData # NoData
  /\ showViewer' = ~showViewer
  /\ UNCHANGED <<loopVars, driverVars, imgData, step, pointVars, rasterVars, viewer,
                 selectedFile, isConverting, uiProgress, cubemapData, converting>>

NextHome ==
  \/ HandleFileSelect
  \/ HandleConvert
  \/ OnProgress
  \/ ConvertResolved
  \/ ConvertRejected
  \/ TogglePreview

SpecHome == InitHome /\ [][NextHome]_vars

(***************************************************************************)
(* Claims.                                                                 *)
(***************************************************************************)
\* the face letters and tiles per side the specification states for levels 0..3
SpecFaceLetters == {"r", "l", "u", "d", "f", "b"}

SpecTilesPerSide == <<1, 1, 2, 4>>

\* C1: a conversion that has computed its counts, and one that completes, reports
\* totalTiles = 132, zoomLevels = 4 and maxZoom = 3 in all three converters, whatever
\* the source dimensions; each level has tilesPerSide = 1, 1, 2, 4.
C1_Counts ==
  /\ pc \in {"face", "tile", "zip", "return", "done"} =>
       /\ totalTiles = 132 /\ zoomLevels = 4 /\ maxZoom = 3
       /\ \A zl \in 0..maxZoom :
            TilesPerSide(tileConfigs[zl].size, tileConfigs[zl].tileSize) = SpecTilesPerSide[zl + 1]
  /\ pc = "done" =>
       /\ result.returned
       /\ result.totalTiles = 132 /\ result.zoomLevels = 4 /\ result.maxZoom = 3

C1_Witness == pc = "done" /\ result.returned /\ srcWidth # srcHeight /\ variant = "serverPlain"

\* the tile paths the specification allows
SpecTilePaths ==
  UNION {{ToString(zl) \o "/" \o letter \o "/" \o ToString(rc[1]) \o "/" \o ToString(rc[2]) \o ".jpg" :
            letter \in SpecFaceLetters,
            rc \in (0..(SpecTilesPerSide[zl + 1] - 1)) \X (0..(SpecTilesPerSide[zl + 1] - 1))} :
         zl \in 0..3}

\* C2: once createZipFile has built the archive it holds exactly totalTiles + 1 file
\* entries: config.json and one entry per tile, each named
\* {level}/{faceLetter}/{row}/{col}.jpg with a valid letter, level, row and col; the
\* returned archive is that archive.
C2_Archive ==
  /\ pc \in {"return", "done"} =>
       /\ Cardinality(DOMAIN zipFiles) = totalTiles + 1
       /\ "config.json" \in DOMAIN zipFiles
       /\ (DOMAIN zipFiles) \ {"config.json"} \subseteq SpecTilePaths
       /\ Cardinality((DOMAIN zipFiles) \ {"config.json"}) = Cardinality(DOMAIN tiles)
  /\ pc = "done" => result.zip = zipFiles

C2_Witness == pc = "done" /\ variant = "client" /\ "3/b/3/3.jpg" \in DOMAIN result.zip

\* C3: for every faceSize and tileSize, no face pixel is copied by two tiles, after
\* the last tile every face pixel has been copied exactly once, the tiles are those
\* with row, col < ceil(faceSize / tileSize), each starts at (col * tileSize,
\* row * tileSize), and a trailing tile is faceSize mod tileSize wide (high) when
\* that is nonzero, else tileSize.
C3_Cover ==
  LET perSide == (faceSize + tileSize - 1) \div tileSize
      trailing == IF faceSize % tileSize # 0 THEN faceSize % tileSize ELSE tileSize
      extent(t) == IF t = perSide - 1 THEN trailing ELSE tileSize
  IN step \in {"slice", "sliced"} =>
       /\ \A p \in DOMAIN covered : covered[p] <= 1
       /\ step = "sliced" =>
            /\ \A p \in DOMAIN covered : covered[p] = 1
            /\ tileAt.x = perSide - 1 /\ tileAt.y = perSide - 1
       /\ tileData # NoBytes =>
            /\ tileAt.x < perSide /\ tileAt.y < perSide
            /\ tileAt.sourceX = tileAt.x * tileSize /\ tileAt.sourceY = tileAt.y * tileSize
            /\ tileAt.sourceWidth = extent(tileAt.x)
            /\ tileAt.sourceHeight = extent(tileAt.y)
            /\ \A p \in DOMAIN covered :
                 covered[p] = IF \/ p[2] < tileAt.sourceY
                                 \/ p[2] < tileAt.sourceY + tileAt.sourceHeight
                                    /\ p[1] < tileAt.sourceX + tileAt.sourceWidth
                              THEN 1 ELSE 0

C3_Witness ==
  /\ step = "sliced" /\ faceSize = 3 /\ tileSize = 2
  /\ tileAt.sourceWidth = 1 /\ tileAt.sourceHeight = 1

\* RGB of source pixel (px, py), read from the source buffer
SourceRGB(px, py) ==
  [c \in 1..3 |-> Num(imgData.data[(py * imgData.width + px) * 4 + (c - 1)])]

\* C5: the sampler returns exactly source pixel (0, 0) for u = v = 0 and source pixel
\* (width - 1, height - 1) for u = v = 1; inputs below 0 and above 1 are clamped and
\* give the same two pixels.
C5_Corners ==
  step = "sampled" =>
    /\ (Leq(uIn, Num(0)) /\ Leq(vIn, Num(0))) => sampled = SourceRGB(0, 0)
    /\ (Leq(Num(1), uIn) /\ Leq(Num(1), vIn)) =>
         sampled = SourceRGB(imgData.width - 1, imgData.height - 1)

C5_Witness ==
  /\ step = "sampled" /\ imgData.width = 2 /\ imgData.height = 2
  /\ uIn = Num(1) /\ vIn = Num(1)
  /\ sampled = SourceRGB(1, 1)
  /\ SourceRGB(1, 1) # SourceRGB(0, 0) /\ SourceRGB(1, 1) # SourceRGB(0, 1)
  /\ SourceRGB(1, 1) # SourceRGB(1, 0)

\* the source is a single colour
IsFlat == \A i \in DOMAIN imgData.data : imgData.data[i] = imgData.data[i % 4]

\* C6: for a single-colour source c, every pixel of the rasterized face is c with
\* alpha 255, and so is every pixel a tile copies from it.
C6_Flat ==
  (IsFlat /\ step \in {"config", "slice", "sliced"}) =>
    /\ \A i \in DOMAIN faceData : faceData[i] = IF i % 4 = 3 THEN 255 ELSE imgData.data[i % 4]
    /\ tileData # NoBytes =>
         \A i \in DOMAIN tileData :
           (((i \div 4) % tileSize) < tileAt.sourceWidth /\ ((i \div 4) \div tileSize) < tileAt.sourceHeight)
             => tileData[i] = IF i % 4 = 3 THEN 255 ELSE imgData.data[i % 4]

C6_Witness ==
  /\ step = "sliced" /\ IsFlat
  /\ imgData.width = 4 /\ imgData.height = 2
  /\ imgData.data[0] = 128 /\ imgData.data[1] = 64 /\ imgData.data[2] = 32
  /\ faceSize = 3 /\ tileSize = 2 /\ face = 3
  /\ tileData[0] = 128 /\ tileData[1] = 64 /\ tileData[2] = 32 /\ tileData[3] = 255

\* C7 as stated: pixel (x, y) is sampled at its centre, u = (x + 0.5) / faceSize and
\* v = (y + 0.5) / faceSize, and the written alpha is 255.
C7_Original ==
  step \in {"config", "slice", "sliced"} =>
    /\ DOMAIN faceArgs = 0..(faceSize * faceSize - 1)
    /\ \A p \in DOMAIN faceArgs :
         faceArgs[p] = <<Rat(2 * (p % faceSize) + 1, 2 * faceSize),
                         Rat(2 * (p \div faceSize) + 1, 2 * faceSize)>>
    /\ \A i \in DOMAIN faceData : i % 4 = 3 => faceData[i] = 255

\* C7 as amended: pixel (x, y) is sampled at its corner, u = x / faceSize and
\* v = y / faceSize, for every x, y in 0..faceSize-1, and the written alpha is 255.
C7_Corner ==
  step \in {"config", "slice", "sliced"} =>
    /\ DOMAIN faceArgs = 0..(faceSize * faceSize - 1)
    /\ DOMAIN faceData = 0..(faceSize * faceSize * 4 - 1)
    /\ \A p \in DOMAIN faceArgs :
         faceArgs[p] = <<Rat(p % faceSize, faceSize), Rat(p \div faceSize, faceSize)>>
    /\ \A i \in DOMAIN faceData : i % 4 = 3 => faceData[i] = 255

C7_Witness ==
  /\ step = "config" /\ faceSize = 3
  /\ faceArgs[5] = <<Rat(2, 3), Rat(1, 3)>>
  /\ faceData[23] = 255

\* the direction table of the specification
SpecDirection(f, u, v) ==
  LET uc == Rat(2 * u.n - u.d, u.d)
      vc == Rat(2 * v.n - v.d, v.d)
      minus(a) == Rat(-a.n, a.d)
  IN CASE f = 0 -> <<Num(1), minus(vc), minus(uc)>>
       [] f = 1 -> <<Num(-1), minus(vc), uc>>
       [] f = 2 -> <<uc, Num(1), vc>>
       [] f = 3 -> <<uc, Num(-1), minus(vc)>>
       [] f = 4 -> <<uc, minus(vc), Num(1)>>
       [] f = 5 -> <<minus(uc), minus(vc), Num(-1)>>

\* C8: for every face 0..5 and every (u, v) the direction built is that of the
\* table, one of its components is +1 or -1, and it is not (0, 0, 0).
C8_Direction ==
  (step = "mapped" /\ face \in 0..5) =>
    /\ <<dir.x, dir.y, dir.z>> = SpecDirection(face, uIn, vIn)
    /\ \E c \in {dir.x, dir.y, dir.z} : c = Num(1) \/ c = Num(-1)
    /\ <<dir.x, dir.y, dir.z>> # <<Num(0), Num(0), Num(0)>>

C8_Witness ==
  /\ step = "mapped" /\ face = 1 /\ uIn = Rat(1, 4) /\ vIn = Rat(3, 4)
  /\ dir = [x |-> Num(-1), y |-> Rat(-1, 2), z |-> Rat(-1, 2)]

\* a failure happened: something threw, or a tile was stored without an image
SomethingFailed == stats.failure # "none" \/ stats.lost > 0

\* every tile of every level and face is in the tile map
AllTilesProduced ==
  \A zl \in 0..3 : \A f \in 0..5 :
    \A rc \in (0..(SpecTilesPerSide[zl + 1] - 1)) \X (0..(SpecTilesPerSide[zl + 1] - 1)) :
      TileKey(zl, f, rc[1], rc[2]) \in DOMAIN tiles

\* C4 as stated: when generating a face, slicing or encoding a tile, or serializing
\* the archive fails, the conversion ends with a single error and returns nothing;
\* an archive is returned only when every tile was produced and added to it.
C4_NoPartialSuccess ==
  /\ (pc \in {"done", "failed"} /\ SomethingFailed) =>
       (pc = "failed" /\ errors = 1 /\ result = NoResult)
  /\ pc = "failed" => (errors = 1 /\ result = NoResult)
  /\ result.returned =>
       /\ AllTilesProduced
       /\ \A k \in DOMAIN tiles : ZipPath(k) \in DOMAIN result.zip

\* C9 as stated, for the two server converters: a tile whose encoding fails at
\* quality 1.0 is encoded exactly once more; if the retry succeeds the tile is
\* stored under its key, if it fails the conversion fails; a completed conversion
\* lacks no tile.
C9_RetryOnce ==
  variant # "client" =>
    /\ (lastEncode.attempts > 0 /\ ~lastEncode.firstOk) =>
         /\ lastEncode.attempts = 2
         /\ lastEncode.ok => lastEncode.key \in DOMAIN tiles
         /\ ~lastEncode.ok => pc = "failed"
    /\ pc = "done" => (stats.lost = 0 /\ AllTilesProduced)

\* C10: when the source cannot be loaded the conversion has failed, processImage
\* was not started, no face was rasterized, and no tile was created or stored.
C10_LoadFailure ==
  stats.loadFailed =>
    /\ pc = "failed" /\ errors = 1 /\ result = NoResult
    /\ ~stats.processStarted
    /\ stats.faces = 0 /\ stats.created = 0
    /\ tiles = NoBytes /\ zipFiles = NoBytes

C10_Witness == stats.loadFailed /\ pc = "failed" /\ stats.failure = "createImageBitmap"

\* C11 as stated: faceUVToEquirectangular returns coordinates only for a face id in
\* 0..5 and a direction other than (0, 0, 0); for any other face id, and for the
\* zero direction, it fails instead of returning.
C11_Guarded ==
  step = "mapped" =>
    /\ face \in 0..5
    /\ <<dir.x, dir.y, dir.z>> # <<Num(0), Num(0), Num(0)>>
    /\ ~IsNaN(eqUV[1]) /\ ~IsNaN(eqUV[2])

\* C12: a server converter's POST answers 200 with Content-Type application/zip and
\* the archive exactly when convertFromUrl completed, and then X-Total-Tiles,
\* X-Zoom-Levels and X-Max-Zoom are the totalTiles, zoomLevels and maxZoom of that
\* conversion (132, 4, 3); when the conversion threw the answer is a JSON error with
\* status 500 and no archive.
C12_Response ==
  (variant # "client" /\ response # NoResponse) =>
    /\ response.status = 200 <=> result.returned
    /\ response.status = 200 =>
         /\ pc = "done"
         /\ response.contentType = "application/zip"
         /\ response.body = result.zip /\ response.body = zipFiles
         /\ response.headers = [XTotalTiles |-> ToString(totalTiles),
                                XZoomLevels |-> ToString(zoomLevels),
                                XMaxZoom |-> ToString(maxZoom)]
         /\ response.headers = [XTotalTiles |-> "132", XZoomLevels |-> "4", XMaxZoom |-> "3"]
    /\ pc = "failed" =>
         /\ response.status = 500
         /\ response.contentType = "application/json"
         /\ response.body[1] = "error"
         /\ response.headers = NoBytes

C12_Witness ==
  /\ variant = "server" /\ pc = "done" /\ response.status = 200
  /\ response.headers.XTotalTiles = "132" /\ "3/b/3/3.jpg" \in DOMAIN response.body

\* the orientation the specification gives each face letter, by face index
SpecOrientation ==
  <<[letter |-> "r", name |-> "right", axis |-> "+X", sign |-> 1],
    [letter |-> "l", name |-> "left", axis |-> "-X", sign |-> -1],
    [letter |-> "u", name |-> "up", axis |-> "+Y", sign |-> 1],
    [letter |-> "d", name |-> "down", axis |-> "-Y", sign |-> -1],
    [letter |-> "f", name |-> "front", axis |-> "+Z", sign |-> 1],
    [letter |-> "b", name |-> "back", axis |-> "-Z", sign |-> -1]>>

\* the direction of face f at face-local (u, v) is dominated by the axis the
\* specification gives it: that component is its sign, no other is larger
DominatedBySpecAxis(f, u, v) ==
  LET d == FaceDirection(f, u, v)
      o == SpecOrientation[f + 1]
      main == CASE f \in {0, 1} -> d.x [] f \in {2, 3} -> d.y [] f \in {4, 5} -> d.z
      others == CASE f \in {0, 1} -> {d.y, d.z} [] f \in {2, 3} -> {d.x, d.z} [] f \in {4, 5} -> {d.x, d.y}
  IN /\ main = Num(o.sign)
     /\ \A c \in others : Leq(Num(-1), c) /\ Leq(c, Num(1))

\* C13: face index 0..5 has the letter r, l, u, d, f, b; the face rasterized for an
\* index has directions dominated by +X, -X, +Y, -Y, +Z, -Z respectively; after the
\* traversal every tile stored under a key with a letter holds a region of the face
\* with that letter's index; and the faceMapping of the archive's config.json gives
\* each letter that same orientation.
C13_Letters ==
  /\ \A f \in 0..5 : faceNames[f] = SpecOrientation[f + 1].letter
  /\ pc = "face" =>
       \A u, v \in {Num(0), Rat(1, 4), Rat(1, 2), Num(1)} : DominatedBySpecAxis(face, u, v)
  /\ pc \in {"zip", "return", "done"} =>
       \A zl \in 0..3 : \A f \in 0..5 :
         \A rc \in (0..(SpecTilesPerSide[zl + 1] - 1)) \X (0..(SpecTilesPerSide[zl + 1] - 1)) :
           LET key == ToString(zl) \o "/" \o SpecOrientation[f + 1].letter \o "/"
                        \o ToString(rc[1]) \o "/" \o ToString(rc[2])
           IN key \in DOMAIN tiles /\ tiles[key] = <<zl, f, rc[1], rc[2]>>
  /\ pc \in {"return", "done"} =>
       /\ zipFiles["config.json"][1] = "config"
       /\ \A f \in 0..5 :
            LET o == SpecOrientation[f + 1]
            IN zipFiles["config.json"][2][o.letter] = [name |-> o.name, axis |-> o.axis]

C13_Witness ==
  /\ pc = "done" /\ variant = "server"
  /\ "2/l/1/0" \in DOMAIN tiles /\ tiles["2/l/1/0"][2] = 1
  /\ FaceDirection(1, Rat(1, 2), Rat(1, 2)).x = Num(-1)
  /\ result.zip["config.json"][2]["l"].axis = "-X"

\* the tile keys of the specification: level/letter/row/col
SpecTileKeys ==
  UNION {{ToString(zl) \o "/" \o letter \o "/" \o ToString(rc[1]) \o "/" \o ToString(rc[2]) :
            letter \in SpecFaceLetters,
            rc \in (0..(SpecTilesPerSide[zl + 1] - 1)) \X (0..(SpecTilesPerSide[zl + 1] - 1))} :
         zl \in 0..3}

\* C14: every write into the tile map during processImage is to a new key (the map
\* has as many keys as writes were made); the keys are keys of the specification; and
\* after the traversal the key set is exactly the set of all level/letter/row/col with
\* row, col < ceil(size / tileSize), whose size is the precomputed totalTiles.
C14_NoCollision ==
  /\ Cardinality(DOMAIN tiles) = stats.writes
  /\ DOMAIN tiles \subseteq SpecTileKeys
  /\ pc \in {"zip", "return", "done"} =>
       /\ DOMAIN tiles = SpecTileKeys
       /\ Cardinality(DOMAIN tiles) = totalTiles
       /\ stats.writes = totalTiles

C14_Witness ==
  /\ pc = "zip" /\ stats.writes = 132 /\ Cardinality(DOMAIN tiles) = 132
  /\ {"2/d/0/1", "2/d/1/0", "2/d/1/1"} \subseteq DOMAIN tiles

\* lexicographic order on <<level, face, row, col>>
LexLess(a, b) ==
  \E i \in 1..4 : a[i] < b[i] /\ \A j \in 1..(i - 1) : a[j] = b[j]

\* the tile the traversal produces next: the first tile of the face while the face
\* is not yet rasterized
NextTile == IF faceReady THEN <<zLevel, face, tileY, tileX>> ELSE <<zLevel, face, 0, 0>>

\* C15: at every point of the traversal the tiles produced so far are exactly those
\* before the next tile in the order level, face index, row, column; a tile is sliced
\* only from a rasterized face, and the faces rasterized so far are those up to the
\* current (level, face); the archive is built only after all 132 tiles.
C15_Order ==
  /\ stats.processStarted =>
       \A zl \in 0..3 : \A f \in 0..5 :
         \A rc \in (0..(SpecTilesPerSide[zl + 1] - 1)) \X (0..(SpecTilesPerSide[zl + 1] - 1)) :
           (ToString(zl) \o "/" \o SpecOrientation[f + 1].letter \o "/"
              \o ToString(rc[1]) \o "/" \o ToString(rc[2])) \in DOMAIN tiles
             <=> LexLess(<<zl, f, rc[1], rc[2]>>, NextTile)
  /\ pc = "tile" => faceReady
  /\ stats.faces = IF zLevel > 3 THEN 24 ELSE 6 * zLevel + face + (IF faceReady THEN 1 ELSE 0)
  /\ zipFiles # NoBytes => (stats.created = 132 /\ stats.faces = 24 /\ zLevel = 4)
  /\ pc \in {"zip", "return", "done"} => (stats.created = 132 /\ stats.faces = 24)

C15_Witness ==
  /\ pc = "tile" /\ zLevel = 2 /\ face = 3 /\ tileY = 1 /\ tileX = 0
  /\ "2/d/0/1" \in DOMAIN tiles /\ "2/d/1/0" \notin DOMAIN tiles
  /\ stats.faces = 16

\* C16: in the client conversion onProgress has been called once per tile produced,
\* the i-th call with i / totalTiles * 100; the values are strictly increasing,
\* processedTiles never exceeds totalTiles, and when the archive is built the last
\* value reported is exactly 100.
C16_Progress ==
  variant = "client" =>
    /\ Len(progress) = stats.created /\ Len(progress) = processedTiles
    /\ stats.processStarted => processedTiles <= totalTiles
    /\ \A i \in 1..Len(progress) : progress[i] = Rat(100 * i, 132)
    /\ \A i \in 1..(Len(progress) - 1) : Less(progress[i], progress[i + 1])
    /\ (pc \in {"zip", "return", "done"} \/ zipFiles # NoBytes) =>
         /\ Len(progress) = 132
         /\ progress[Len(progress)] = Num(100)

C16_Witness ==
  /\ variant = "client" /\ pc = "zip" /\ zipFiles = NoBytes
  /\ Len(progress) = 132 /\ progress[66] = Num(50) /\ progress[132] = Num(100)

\* the indices of the colour bytes getPixel(px, py) reads
ReadIndices(px, py) == {(py * imgData.width + px) * 4 + c : c \in 0..2}

\* C17: for every source size and every (u, v), inside or outside [0, 1], the four
\* sampled indices are integers with 0 <= x1 <= x2 <= width - 1 and
\* 0 <= y1 <= y2 <= height - 1, every byte read is inside the source buffer, and the
\* neighbour is clamped, not wrapped: x2 is x1 or x1 + 1, and for u >= 1 and
\* width > 1 column 0 is not read (v, height and row 0 likewise).
C17_Indices ==
  step = "sampled" =>
    /\ IsInteger(taps.x1) /\ IsInteger(taps.x2) /\ IsInteger(taps.y1) /\ IsInteger(taps.y2)
    /\ 0 <= taps.x1.n /\ taps.x1.n <= taps.x2.n /\ taps.x2.n <= imgData.width - 1
    /\ 0 <= taps.y1.n /\ taps.y1.n <= taps.y2.n /\ taps.y2.n <= imgData.height - 1
    /\ taps.x2.n - taps.x1.n <= 1 /\ taps.y2.n - taps.y1.n <= 1
    /\ \A px \in {taps.x1.n, taps.x2.n} : \A py \in {taps.y1.n, taps.y2.n} :
         ReadIndices(px, py) \subseteq DOMAIN imgData.data
    /\ (Leq(Num(1), uIn) /\ imgData.width > 1) => (taps.x1.n # 0 /\ taps.x2.n # 0)
    /\ (Leq(Num(1), vIn) /\ imgData.height > 1) => (taps.y1.n # 0 /\ taps.y2.n # 0)

C17_Witness ==
  /\ step = "sampled" /\ imgData.width = 2 /\ imgData.height = 2
  /\ uIn = Rat(5, 4) /\ vIn = Rat(1, 4)
  /\ taps.x1 = Num(1) /\ taps.x2 = Num(1) /\ taps.y1 = Num(0) /\ taps.y2 = Num(1)

\* channel c (1..3) of source pixel (px, py), read from the source buffer
SourceChannel(px, py, c) == imgData.data[(py * imgData.width + px) * 4 + (c - 1)]

\* lerp(a, b, t) = a + t * (b - a), as a reduced fraction
SpecLerp(a, b, t) == Rat(a.n * b.d * t.d + t.n * (b.n * a.d - a.n * b.d), a.d * b.d * t.d)

\* C18: for every (u, v) and every source buffer, each channel returned is an integer
\* in 0..255 within 1/2 of lerp(lerp(p11, p21, fx), lerp(p12, p22, fx), fy), where
\* p11, p21, p12, p22 are the four corner samples of that channel, and lies between
\* the smallest and the largest of the four.
C18_Rounding ==
  step = "sampled" =>
    \A c \in 1..3 :
      LET p11 == SourceChannel(taps.x1.n, taps.y1.n, c)
          p21 == SourceChannel(taps.x2.n, taps.y1.n, c)
          p12 == SourceChannel(taps.x1.n, taps.y2.n, c)
          p22 == SourceChannel(taps.x2.n, taps.y2.n, c)
          exact == SpecLerp(SpecLerp(Num(p11), Num(p21), taps.fx),
                            SpecLerp(Num(p12), Num(p22), taps.fx), taps.fy)
          r == sampled[c]
      IN /\ r.d = 1 /\ 0 <= r.n /\ r.n <= 255
         /\ 2 * Abs(r.n * exact.d - exact.n) <= exact.d
         /\ \E p \in {p11, p21, p12, p22} : p <= r.n
         /\ \E p \in {p11, p21, p12, p22} : r.n <= p
         /\ ToUint8Clamped(r) = r.n

C18_Witness ==
  /\ step = "sampled" /\ taps.fx = Rat(1, 4) /\ taps.fy = Rat(3, 4)
  /\ \E c \in 1..3 :
       sampled[c].n \notin {SourceChannel(px, py, c) : px \in {0, 1}, py \in {0, 1}}

\* the tile last sliced is tileSize x tileSize and holds, at (x, y) inside the copied
\* width and height, the RGBA of face pixel (col * tileSize + x, row * tileSize + y)
TileIsCopy ==
  LET offX == tileAt.x * tileSize
      offY == tileAt.y * tileSize
      copiedW == IF tileSize < faceSize - offX THEN tileSize ELSE faceSize - offX
      copiedH == IF tileSize < faceSize - offY THEN tileSize ELSE faceSize - offY
  IN /\ DOMAIN tileData = 0..(tileSize * tileSize * 4 - 1)
     /\ \A x \in 0..(copiedW - 1) : \A y \in 0..(copiedH - 1) : \A c \in 0..3 :
          tileData[(y * tileSize + x) * 4 + c] = faceData[((offY + y) * faceSize + offX + x) * 4 + c]

\* the pixels of the tile last sliced that lie outside the copied region
PaddingPixels ==
  LET offX == tileAt.x * tileSize
      offY == tileAt.y * tileSize
  IN {p \in (0..(tileSize - 1)) \X (0..(tileSize - 1)) :
        p[1] >= faceSize - offX \/ p[2] >= faceSize - offY}

\* the RGBA of tile pixel p
TilePixel(p) == [c \in 0..3 |-> tileData[(p[2] * tileSize + p[1]) * 4 + c]]

\* C19 as stated: the tile is a copy of the face region, and every pixel outside the
\* copied region is black with alpha 255.
C19_Original ==
  (step \in {"slice", "sliced"} /\ tileData # NoBytes) =>
    /\ TileIsCopy
    /\ \A p \in PaddingPixels : TilePixel(p) = [c \in 0..3 |-> IF c = 3 THEN 255 ELSE 0]

\* C19 as amended: the tile is a copy of the face region, and every pixel outside the
\* copied region has R = G = B = 0; its alpha is 255 in page.tsx's createTile, and 0
\* (transparent black) in part_000's createTile and on the client's tile canvas.
C19_Padding ==
  (step \in {"slice", "sliced"} /\ tileData # NoBytes) =>
    /\ TileIsCopy
    /\ \A p \in PaddingPixels :
         TilePixel(p) = [c \in 0..3 |-> IF c = 3 /\ variant = "server" THEN 255 ELSE 0]

C19_Witness ==
  /\ step = "slice" /\ variant = "serverPlain" /\ faceSize = 3 /\ tileSize = 2
  /\ tileAt.x = 1 /\ tileAt.y = 0 /\ tileAt.sourceWidth = 1
  /\ <<1, 0>> \in PaddingPixels /\ TilePixel(<<1, 0>>) = [c \in 0..3 |-> 0]
  /\ TilePixel(<<0, 1>>) = [c \in 0..3 |-> faceData[(1 * 3 + 2) * 4 + c]]
  /\ TilePixel(<<0, 1>>)[3] = 255 /\ imgData \in RampImages

C21_PreviewFound ==
  viewer # NoViewer =>
    /\ viewer.key = "1/f/0/0"
    /\ viewer.key \in DOMAIN result.tiles
    /\ viewer.found /\ viewer.drawn

\* C22 as stated: in the Home page, under every interleaving of handleFileSelect and
\* handleConvert with its completion, a non-null cubemapData is the result of
\* converting the currently selected file.
C22_CurrentResult ==
  cubemapData # NoData => cubemapData.file = selectedFile

\* C23 as stated: a request whose body is not JSON, has no imageUrl, or has an
\* imageUrl that is not a URL is answered with status 400, and no source is loaded
\* and no conversion started for it; status 500 is answered only after a conversion
\* was started and failed.
C23_BadRequest ==
  (variant # "client" /\ response # NoResponse) =>
    /\ request # "ok" =>
         /\ response.status = 400
         /\ srcWidth = 0 /\ ~stats.loadFailed /\ ~stats.processStarted
    /\ response.status = 500 => (request = "ok" /\ pc = "failed")

====
